---- MODULE Spec2Model ----
(***************************************************************************)
(* Model of plane's permission guard (src/plane/utils.py) and of the Users *)
(* route paths (src/plane/routes/paths.py).                                *)
(*                                                                         *)
(* A permission string is a sequence of one-character strings, so that     *)
(* str.split(".") and ".".join(...) are computed, not assumed.             *)
(*                                                                         *)
(* Three specifications share the module's variables:                      *)
(*   Spec          the guarded endpoint method called by asyncio tasks,    *)
(*                 with the permission holder refreshed and invalidated    *)
(*                 by the surrounding client;                              *)
(*   SpecMatch     has_permissions run statement by statement on every     *)
(*                 bounded input (FairSpecMatch adds weak fairness);       *)
(*   SpecPaths     construction of a Users node and reads of its           *)
(*                 properties.                                             *)
(***************************************************************************)
EXTENDS Integers, Sequences, FiniteSets, TLC

VARIABLES
    required,     \* the string captured by with_permission_check(required)
    permissions,  \* self._http.permissions: None or a list of strings
    running,      \* the task the event loop is executing, or NoTask
    pc,           \* per task: position in wrapper
    call,         \* per task: (self, *args, **kwargs) of the guarded call
    calls,        \* per task: times the wrapped function was invoked
    recv,         \* per task: what the wrapped function received
    fn_out,       \* per task: how the wrapped function ended
    outcome,      \* per task: how the guarded call ended
    hp_args,      \* arguments of the has_permissions call under SpecMatch
    frame,        \* locals of the has_permissions call under SpecMatch
    users,        \* the Users object under SpecPaths
    got           \* the last operation on it: its name and argument or result

guardVars == <<required, permissions, running, pc, call, calls, recv, fn_out, outcome>>
matchVars == <<hp_args, frame>>
pathVars  == <<users, got>>
vars      == <<required, permissions, running, pc, call, calls, recv, fn_out,
               outcome, hp_args, frame, users, got>>

---------------------------------------------------------------------------
(* Bounds *)

MaxLen == 3

MaxGranted == 1

MaxId == 12

Chars == {"x", "."}

Strings == UNION {[1..n -> Chars] : n \in 0..MaxLen}

Granted == UNION {[1..n -> Strings] : n \in 0..MaxGranted}

\* The lists the client fetches into the holder while guarded calls run: no
\* entry or one.  Longer lists reach has_permissions under SpecMatch.
Fetched == {<<>>} \cup {<<s>> : s \in Strings}

\* the asyncio tasks that call the guarded method
Tasks == {"task1", "task2"}

NoTask == "none"

---------------------------------------------------------------------------
(* has_permissions, src/plane/utils.py:30-52 *)

\* required.split("."): one segment more than there are dots
RECURSIVE split(_)
split(s) ==
    IF s = <<>> THEN << <<>> >>
    ELSE LET rest == split(Tail(s)) IN
         IF Head(s) = "."
         THEN << <<>> >> \o rest
         ELSE << <<Head(s)>> \o Head(rest) >> \o Tail(rest)

\* join that forgets the separator: "".join(list)
join_without_separator(list) ==
    LET RECURSIVE j(_)
        j(l) == IF l = <<>> THEN <<>> ELSE Head(l) \o j(Tail(l))
    IN j(list)

\* ".".join(list)
join(list) ==
    LET RECURSIVE j(_)
        j(l) == IF l = <<>> THEN <<>>
                ELSE IF Len(l) = 1 THEN Head(l)
                ELSE Head(l) \o <<".">> \o j(Tail(l))
    IN j(list)

\* membership that looks at the first entry only
contains_first(x, list) == list # <<>> /\ list[1] = x

\* x in list
contains(x, list) == \E i \in 1..Len(list) : list[i] = x

\* list.pop() : the list without its last element
pop(list) == SubSeq(list, 1, Len(list) - 1)

\* list.remove(x), every occurrence
remove(x, list) == SelectSeq(list, LAMBDA e : e # x)

\* the locals of a fresh call
has_permissions_enter(req, perms) ==
    [required |-> req, permissions |-> perms, required_list |-> <<>>,
     tests |-> 0, tested |-> <<>>, pc |-> "line45", ret |-> FALSE]

\* the loop with a matched entry removed from the caller's list
line47_consume(f) ==
    IF f.required_list = <<>>
    THEN [f EXCEPT !.pc = "return", !.ret = FALSE]
    ELSE LET candidate == join(f.required_list)
             g == [f EXCEPT !.tests = @ + 1, !.tested = Append(@, candidate)]
         IN IF contains(candidate, f.permissions)
            THEN [g EXCEPT !.pc = "return", !.ret = TRUE,
                           !.permissions = remove(candidate, @)]
            ELSE [g EXCEPT !.required_list = pop(@)]

\* the loop with the condition len(required_list) > 1
line47_stops_early(f) ==
    IF Len(f.required_list) <= 1
    THEN [f EXCEPT !.pc = "return", !.ret = FALSE]
    ELSE LET candidate == join(f.required_list)
             g == [f EXCEPT !.tests = @ + 1, !.tested = Append(@, candidate)]
         IN IF contains(candidate, f.permissions)
            THEN [g EXCEPT !.pc = "return", !.ret = TRUE]
            ELSE [g EXCEPT !.required_list = pop(@)]

\* line 45: required_list = required.split(".")
has_permissions_line45(f) ==
    [f EXCEPT !.required_list = split(f.required), !.pc = "line47"]

\* lines 47-52: one evaluation of the while condition and, when it holds,
\* one pass through the loop body
has_permissions_line47(f) ==
    IF f.required_list = <<>>
    THEN [f EXCEPT !.pc = "return", !.ret = FALSE]
    ELSE LET candidate == join(f.required_list)
             g == [f EXCEPT !.tests = @ + 1, !.tested = Append(@, candidate)]
         IN IF contains(candidate, f.permissions)
            THEN [g EXCEPT !.pc = "return", !.ret = TRUE]
            ELSE [g EXCEPT !.required_list = pop(@)]

has_permissions_step(f) ==
    IF f.pc = "line45" THEN has_permissions_line45(f) ELSE has_permissions_line47(f)

\* the call run to its return statement
RECURSIVE has_permissions_run(_)
has_permissions_run(f) ==
    IF f.pc = "return" THEN f ELSE has_permissions_run(has_permissions_step(f))

has_permissions(req, perms) ==
    has_permissions_run(has_permissions_enter(req, perms)).ret

---------------------------------------------------------------------------
(* with_permission_check(required)(function), src/plane/utils.py:55-92 *)

\* self._http.permissions
None == [is_none |-> TRUE, value |-> <<>>]
List(g) == [is_none |-> FALSE, value |-> g]

\* the guarded calls the tasks make: receiver, *args, **kwargs
Calls == { [self |-> "endpoint", args |-> <<"a1">>, kwargs |-> "k=1"],
           [self |-> "endpoint", args |-> <<>>, kwargs |-> ""] }

NoCall == [self |-> "", args |-> <<>>, kwargs |-> ""]

\* how the wrapped coroutine function can end
FnOutcomes == { [kind |-> "return", value |-> "r1"],
                [kind |-> "return", value |-> "r2"],
                [kind |-> "raise", value |-> "HTTPException"] }

NoFnOutcome == [kind |-> "none", value |-> ""]

\* how the guarded call ends
NoOutcome == [kind |-> "none", arg |-> <<>>, value |-> ""]
AssertionError == [kind |-> "AssertionError", arg |-> <<>>, value |-> ""]
AccessException(req) == [kind |-> "AccessException", arg |-> req, value |-> ""]
TypeError == [kind |-> "TypeError", arg |-> <<>>, value |-> ""]

\* the None check raising the access error instead
line80_as_denied(req, p) ==
    IF p.is_none
    THEN [pc |-> "done", outcome |-> AccessException(req)]
    ELSE [pc |-> "line85", outcome |-> NoOutcome]

\* lines 80-83: if self._http.permissions is None: raise AssertionError(...)
wrapper_line80(req, p) ==
    IF p.is_none
    THEN [pc |-> "done", outcome |-> AssertionError]
    ELSE [pc |-> "line85", outcome |-> NoOutcome]

\* the access error raised without the required string
line85_no_payload(req, p) ==
    IF p.is_none
    THEN [pc |-> "done", outcome |-> TypeError, permissions |-> p]
    ELSE LET f == has_permissions_run(has_permissions_enter(req, p.value)) IN
         [pc |-> IF f.ret THEN "line88" ELSE "done",
          outcome |-> IF f.ret THEN NoOutcome ELSE AccessException(<<>>),
          permissions |-> List(f.permissions)]

\* lines 85-86: if not has_permissions(required, self._http.permissions):
\*                  raise AccessException(required)
\* The list is passed by reference, so the holder shows whatever the call did
\* to it; "in None" raises TypeError.
wrapper_line85(req, p) ==
    IF p.is_none
    THEN [pc |-> "done", outcome |-> TypeError, permissions |-> p]
    ELSE LET f == has_permissions_run(has_permissions_enter(req, p.value)) IN
         [pc |-> IF f.ret THEN "line88" ELSE "done",
          outcome |-> IF f.ret THEN NoOutcome ELSE AccessException(req),
          permissions |-> List(f.permissions)]

\* the call function(self, *args)
arguments_without_kwargs(c) == [self |-> c.self, args |-> c.args, kwargs |-> ""]

\* line 88: function(self, *args, **kwargs)
wrapper_arguments(c) == [self |-> c.self, args |-> c.args, kwargs |-> c.kwargs]

\* the await wrapped in try/except that returns None on an exception
result_swallowed(o) ==
    IF o.kind = "raise"
    THEN [kind |-> "return", arg |-> <<>>, value |-> "None"]
    ELSE [kind |-> o.kind, arg |-> <<>>, value |-> o.value]

\* line 88: return await function(...): the value is returned and an
\* exception propagates, as they are
wrapper_result(o) == [kind |-> o.kind, arg |-> <<>>, value |-> o.value]

\* a wrapper that awaits between its statements
always_yield(t, next_pc) == NoTask

\* Which task the event loop runs after a step of the wrapper: the coroutine
\* keeps the loop until it awaits (line 88) or ends; lines 80-86 hold no await.
resume(t, next_pc) == IF next_pc \in {"awaiting", "done"} THEN NoTask ELSE t

\* the event loop runs one coroutine at a time
CanRun(t) == running = NoTask \/ running = t

\* A task calls the guarded method: line 80.
Call(t, c) ==
    /\ pc[t] = "idle"
    /\ CanRun(t)
    /\ LET r == wrapper_line80(required, permissions) IN
         /\ pc' = [pc EXCEPT ![t] = r.pc]
         /\ outcome' = [outcome EXCEPT ![t] = r.outcome]
         /\ running' = resume(t, r.pc)
    /\ call' = [call EXCEPT ![t] = c]
    /\ calls' = [calls EXCEPT ![t] = 0]
    /\ recv' = [recv EXCEPT ![t] = NoCall]
    /\ fn_out' = [fn_out EXCEPT ![t] = NoFnOutcome]
    /\ UNCHANGED <<required, permissions>>
    /\ UNCHANGED <<matchVars, pathVars>>

\* Lines 85-86.
Check(t) ==
    /\ pc[t] = "line85"
    /\ CanRun(t)
    /\ LET r == wrapper_line85(required, permissions) IN
         /\ pc' = [pc EXCEPT ![t] = r.pc]
         /\ outcome' = [outcome EXCEPT ![t] = r.outcome]
         /\ permissions' = r.permissions
         /\ running' = resume(t, r.pc)
    /\ UNCHANGED <<required, call, calls, recv, fn_out>>
    /\ UNCHANGED <<matchVars, pathVars>>

\* Line 88: the wrapped function is called and the wrapper awaits it.
Invoke(t) ==
    /\ pc[t] = "line88"
    /\ CanRun(t)
    /\ pc' = [pc EXCEPT ![t] = "awaiting"]
    /\ calls' = [calls EXCEPT ![t] = @ + 1]
    /\ recv' = [recv EXCEPT ![t] = wrapper_arguments(call[t])]
    /\ running' = resume(t, "awaiting")
    /\ UNCHANGED <<required, permissions, call, fn_out, outcome>>
    /\ UNCHANGED <<matchVars, pathVars>>

\* Line 88: the awaited function ends and the wrapper ends the same way.
Complete(t, o) ==
    /\ pc[t] = "awaiting"
    /\ CanRun(t)
    /\ pc' = [pc EXCEPT ![t] = "done"]
    /\ fn_out' = [fn_out EXCEPT ![t] = o]
    /\ outcome' = [outcome EXCEPT ![t] = wrapper_result(o)]
    /\ running' = resume(t, "done")
    /\ UNCHANGED <<required, permissions, call, calls, recv>>
    /\ UNCHANGED <<matchVars, pathVars>>

\* The caller has its result; the task is free to call again.
Finish(t) ==
    /\ pc[t] = "done"
    /\ pc' = [pc EXCEPT ![t] = "idle"]
    /\ call' = [call EXCEPT ![t] = NoCall]
    /\ calls' = [calls EXCEPT ![t] = 0]
    /\ recv' = [recv EXCEPT ![t] = NoCall]
    /\ fn_out' = [fn_out EXCEPT ![t] = NoFnOutcome]
    /\ outcome' = [outcome EXCEPT ![t] = NoOutcome]
    /\ UNCHANGED <<required, permissions, running>>
    /\ UNCHANGED <<matchVars, pathVars>>

\* The client (re)fetches the permissions while no coroutine is running.
Refresh(g) ==
    /\ running = NoTask
    /\ permissions' = List(g)
    /\ UNCHANGED <<required, running, pc, call, calls, recv, fn_out, outcome>>
    /\ UNCHANGED <<matchVars, pathVars>>

\* The client drops the permissions while no coroutine is running.
Invalidate ==
    /\ running = NoTask
    /\ ~permissions.is_none
    /\ permissions' = None
    /\ UNCHANGED <<required, running, pc, call, calls, recv, fn_out, outcome>>
    /\ UNCHANGED <<matchVars, pathVars>>

IdleFrame == has_permissions_enter(<<>>, <<>>)
NoUsers == [made |-> FALSE, _user_id |-> 0, _route |-> ""]
NoRead == [prop |-> "", str |-> "", int |-> 0]

GuardIdle ==
    /\ running = NoTask
    /\ pc = [t \in Tasks |-> "idle"]
    /\ call = [t \in Tasks |-> NoCall]
    /\ calls = [t \in Tasks |-> 0]
    /\ recv = [t \in Tasks |-> NoCall]
    /\ fn_out = [t \in Tasks |-> NoFnOutcome]
    /\ outcome = [t \in Tasks |-> NoOutcome]

MatchIdle == hp_args = [required |-> <<>>, permissions |-> <<>>] /\ frame = IdleFrame

PathsIdle == users = NoUsers /\ got = NoRead

\* A method decorated with some required string; permissions not yet fetched.
Init ==
    /\ required \in Strings
    /\ permissions = None
    /\ GuardIdle
    /\ MatchIdle
    /\ PathsIdle

Next ==
    \/ \E t \in Tasks, c \in Calls : Call(t, c)
    \/ \E t \in Tasks : Check(t)
    \/ \E t \in Tasks : Invoke(t)
    \/ \E t \in Tasks, o \in FnOutcomes : Complete(t, o)
    \/ \E t \in Tasks : Finish(t)
    \/ \E g \in Fetched : Refresh(g)
    \/ Invalidate

Spec == Init /\ [][Next]_vars

---------------------------------------------------------------------------
(* has_permissions statement by statement *)

MatchInit ==
    /\ hp_args \in [required : Strings, permissions : Granted]
    /\ frame = has_permissions_enter(hp_args.required, hp_args.permissions)
    /\ required = <<>>
    /\ permissions = None
    /\ GuardIdle
    /\ PathsIdle

Line45 ==
    /\ frame.pc = "line45"
    /\ frame' = has_permissions_line45(frame)
    /\ UNCHANGED <<hp_args, guardVars, pathVars>>

Line47 ==
    /\ frame.pc = "line47"
    /\ frame' = has_permissions_line47(frame)
    /\ UNCHANGED <<hp_args, guardVars, pathVars>>

MatchNext == Line45 \/ Line47

SpecMatch == MatchInit /\ [][MatchNext]_vars

\* a called function runs on until it returns
FairSpecMatch == SpecMatch /\ WF_vars(MatchNext)

---------------------------------------------------------------------------
(* Users, src/plane/routes/paths.py:92-126 *)

UserIds == (0 - MaxId)..MaxId

digit(d) ==
    CASE d = 0 -> "0" [] d = 1 -> "1" [] d = 2 -> "2" [] d = 3 -> "3"
      [] d = 4 -> "4" [] d = 5 -> "5" [] d = 6 -> "6" [] d = 7 -> "7"
      [] d = 8 -> "8" [] d = 9 -> "9"

\* f"{n}" of an int: its decimal digits, with a minus sign when negative
RECURSIVE format(_)
format(n) ==
    IF n < 0 THEN "-" \o format(0 - n)
    ELSE IF n < 10 THEN digit(n)
    ELSE format(n \div 10) \o digit(n % 10)

\* Users.__init__
Users_init(user_id) ==
    [made |-> TRUE, _user_id |-> user_id, _route |-> "/users/" \o format(user_id)]

Users_route(self) == [prop |-> "route", str |-> self._route, int |-> 0]
Users_user_id(self) == [prop |-> "user_id", str |-> "", int |-> self._user_id]
Users_pronouns(self) == [prop |-> "pronouns", str |-> self._route \o "/pronouns", int |-> 0]
Users_bans(self) == [prop |-> "bans", str |-> self._route \o "/bans", int |-> 0]
Users_whitelists(self) ==
    [prop |-> "whitelists", str |-> self._route \o "/whitelists", int |-> 0]

\* reputation with the suffix spelled out
reputation_unabbreviated(self) ==
    [prop |-> "reputation", str |-> self._route \o "/reputation", int |-> 0]

Users_reputation(self) == [prop |-> "reputation", str |-> self._route \o "/rep", int |-> 0]

PathsInit ==
    /\ users = NoUsers
    /\ got = NoRead
    /\ required = <<>>
    /\ permissions = None
    /\ GuardIdle
    /\ MatchIdle

\* Paths.users(user_id)
Paths_users(user_id) ==
    /\ ~users.made
    /\ users' = Users_init(user_id)
    /\ got' = [prop |-> "__init__", str |-> "", int |-> user_id]
    /\ UNCHANGED <<guardVars, matchVars>>

Read(value) ==
    /\ users.made
    /\ got' = value
    /\ UNCHANGED <<users, guardVars, matchVars>>

ReadRoute == Read(Users_route(users))
ReadUserId == Read(Users_user_id(users))
ReadPronouns == Read(Users_pronouns(users))
ReadBans == Read(Users_bans(users))
ReadWhitelists == Read(Users_whitelists(users))
ReadReputation == Read(Users_reputation(users))

PathsNext ==
    \/ \E user_id \in UserIds : Paths_users(user_id)
    \/ ReadRoute
    \/ ReadUserId
    \/ ReadPronouns
    \/ ReadBans
    \/ ReadWhitelists
    \/ ReadReputation

SpecPaths == PathsInit /\ [][PathsNext]_vars

---------------------------------------------------------------------------
(* Properties *)

\* The prefixes of r that end at its end or right before a dot.
Prefixes(r) == {SubSeq(r, 1, j) : j \in {k \in 0..Len(r) : k = Len(r) \/ r[k + 1] = "."}}

\* Some such prefix is an entry of g.
PrefixGranted(r, g) == \E q \in Prefixes(r) : \E i \in 1..Len(g) : g[i] = q

NumSegments(r) == 1 + Cardinality({i \in 1..Len(r) : r[i] = "."})

Insert(g, i, s) == SubSeq(g, 1, i) \o <<s>> \o SubSeq(g, i + 1, Len(g))

\* C1: a guarded call made while the holder is None ends at once with
\* AssertionError, not AccessException, and the wrapped function is not invoked.
C1_UnsetIsFatal ==
    [][\A t \in Tasks :
        (pc[t] = "idle" /\ pc'[t] # "idle" /\ permissions.is_none)
        => (pc'[t] = "done" /\ outcome'[t] = AssertionError /\ calls'[t] = 0)]_vars

C1_Witness ==
    \E t \in Tasks : pc[t] = "done" /\ outcome[t] = AssertionError
                     /\ calls[t] = 0 /\ permissions.is_none

\* C2: when the holder is a list and has_permissions(required, list) is false,
\* the guarded call ends with AccessException(required) and the wrapped
\* function is not invoked.
C2_DeniedCarriesRequired ==
    [][\A t \in Tasks :
        (/\ pc[t] = "line85" /\ pc'[t] # "line85"
         /\ ~permissions.is_none
         /\ ~has_permissions(required, permissions.value))
        => (pc'[t] = "done" /\ outcome'[t] = AccessException(required)
            /\ calls'[t] = 0)]_vars

C2_Witness ==
    \E t \in Tasks : /\ pc[t] = "done"
                     /\ outcome[t] = AccessException(required)
                     /\ calls[t] = 0
                     /\ required # <<>>
                     /\ permissions = List(<<>>)

\* C3: when the holder is a list and has_permissions(required, list) is true,
\* the wrapped function is invoked once with the call's receiver, args and
\* kwargs, and what it returns is what the guarded call returns.
C3_PassForwards ==
    [][\A t \in Tasks :
        /\ (/\ pc[t] = "line85" /\ pc'[t] # "line85"
            /\ ~permissions.is_none
            /\ has_permissions(required, permissions.value))
           => (pc'[t] = "line88" /\ calls'[t] = 0 /\ running' = t)
        /\ (pc[t] = "line88" /\ pc'[t] # "line88")
           => (pc'[t] = "awaiting" /\ calls'[t] = 1 /\ recv'[t] = call[t])
        /\ (pc[t] = "awaiting" /\ pc'[t] # "awaiting")
           => (/\ pc'[t] = "done" /\ calls'[t] = 1 /\ recv'[t] = call[t]
               /\ fn_out'[t].kind = "return"
                  => (outcome'[t].kind = "return"
                      /\ outcome'[t].value = fn_out'[t].value))]_vars

C3_Witness ==
    \E t \in Tasks : /\ pc[t] = "done"
                     /\ outcome[t].kind = "return" /\ outcome[t].value = "r2"
                     /\ calls[t] = 1
                     /\ recv[t] = call[t] /\ call[t].kwargs = "k=1"
                     /\ Len(required) > 1
                     /\ ~permissions.is_none
                     /\ required \notin {permissions.value[i] : i \in 1..Len(permissions.value)}

\* C4: when the wrapped function raises, the guarded call raises the same
\* exception and the function was invoked once.
C4_ErrorPassesThrough ==
    \A t \in Tasks :
        (pc[t] = "done" /\ fn_out[t].kind = "raise")
        => (outcome[t].kind = "raise" /\ outcome[t].value = fn_out[t].value
            /\ calls[t] = 1)

C4_Witness ==
    \E t \in Tasks : pc[t] = "done" /\ fn_out[t].kind = "raise"
                     /\ outcome[t].kind = "raise" /\ calls[t] = 1

\* C5: has_permissions returns true exactly when some prefix of required that
\* ends at a segment boundary is, as a whole string, an entry of permissions.
C5_MatchesPrefixes ==
    frame.pc = "return"
    => (frame.ret <=> PrefixGranted(hp_args.required, hp_args.permissions))

C5_Witness ==
    /\ frame.pc = "return" /\ frame.ret /\ frame.tests = 2
    /\ ~contains(hp_args.required, hp_args.permissions)

\* C6: a call that returned true returns true on every list with the same
\* entries and more: one entry inserted anywhere, or the entries reordered
\* or repeated.
C6_Monotonic ==
    (frame.pc = "return" /\ frame.ret)
    => /\ \A s \in Strings : \A i \in 0..Len(hp_args.permissions) :
             has_permissions(hp_args.required, Insert(hp_args.permissions, i, s))
       /\ \A g \in Granted :
             (\A i \in 1..Len(hp_args.permissions) : contains(hp_args.permissions[i], g))
             => has_permissions(hp_args.required, g)

C6_Witness ==
    /\ frame.pc = "return" /\ frame.ret
    /\ Len(hp_args.permissions) = MaxGranted
    /\ frame.tests = 2

\* C7: between line 80 and line 85 of a call no other coroutine runs, so the
\* call that passed the None check is matched against a list; every call ends
\* in AssertionError, AccessException or the invocation of the function.
C7_CheckIsAtomic ==
    \A t \in Tasks :
        /\ pc[t] = "line85" => (running = t /\ ~permissions.is_none)
        /\ outcome[t].kind # "TypeError"
        /\ pc[t] = "done"
           => \/ outcome[t].kind \in {"AssertionError", "AccessException"} /\ calls[t] = 0
              \/ outcome[t].kind \in {"return", "raise"} /\ calls[t] = 1

C7_Witness ==
    \E t \in Tasks, u \in Tasks :
        /\ pc[t] = "awaiting" /\ permissions.is_none
        /\ pc[u] = "done" /\ outcome[u] = AssertionError

\* C8: no step of a guarded call changes the holder, and whether the call
\* passes line 85 depends on required and the holder's list alone.
C8_GuardLeavesHolder ==
    [][/\ (\E t \in Tasks : pc'[t] # pc[t]) => permissions' = permissions
       /\ \A t \in Tasks :
            (pc[t] = "line85" /\ pc'[t] # "line85" /\ ~permissions.is_none)
            => (pc'[t] = "line88" <=> PrefixGranted(required, permissions.value))]_vars

C8_Witness ==
    \E t \in Tasks, u \in Tasks :
        /\ pc[t] = "done" /\ outcome[t].kind = "return"
        /\ pc[u] = "done" /\ outcome[u].kind = "AccessException"
        /\ permissions = List(<<required>>)

\* C9: a Users node's route is "/users/" and the decimal user_id, and its
\* properties read as that route plus /pronouns, /bans, /whitelists, /rep,
\* with user_id the constructor's argument.
C9_UsersPaths ==
    users.made
    => /\ users._route = "/users/" \o format(users._user_id)
       /\ got.prop = "__init__" => users._user_id = got.int
       /\ got.prop = "user_id" => got.int = users._user_id
       /\ got.prop = "route" => got.str = "/users/" \o format(users._user_id)
       /\ got.prop = "pronouns"
          => got.str = "/users/" \o format(users._user_id) \o "/pronouns"
       /\ got.prop = "bans"
          => got.str = "/users/" \o format(users._user_id) \o "/bans"
       /\ got.prop = "whitelists"
          => got.str = "/users/" \o format(users._user_id) \o "/whitelists"
       /\ got.prop = "reputation"
          => got.str = "/users/" \o format(users._user_id) \o "/rep"

C9_Witness ==
    users.made /\ users._user_id = 12 /\ got.prop = "reputation"
    /\ got.str = "/users/12/rep"

\* C10: the loop tests one candidate and drops one segment per pass, so the
\* call returns within as many tests as required has segments, false only
\* after every prefix was tested; and it does return.
C10_Bounded ==
    LET n == NumSegments(hp_args.required) IN
    /\ n >= 1
    /\ frame.pc = "line47" => frame.tests + Len(frame.required_list) = n
    /\ frame.pc = "return"
       => /\ frame.tests = Len(frame.tested)
          /\ frame.tests >= 1 /\ frame.tests <= n
          /\ ~frame.ret
             => /\ frame.tests = n
                /\ {frame.tested[i] : i \in 1..n} = Prefixes(hp_args.required)

C10_Terminates == [](C10_Bounded) /\ <>(frame.pc = "return")

C10_Witness ==
    /\ frame.pc = "return" /\ ~frame.ret
    /\ frame.tests = 3 /\ NumSegments(hp_args.required) = 3

====
